---- MODULE Spec2Model ----
(***************************************************************************)
(* Model of dao::value (src/dao/src/value.rs): the Value tagged union, the *)
(* forward conversions generated by impl_from! and the backward            *)
(* conversions generated by impl_tryfrom!.                                 *)
(*                                                                         *)
(* Payloads are kept at their machine representation: integers and floats  *)
(* are sequences of bits, most significant bit first, of the width of      *)
(* their type; blobs, strings and uuids are sequences of bytes.            *)
(***************************************************************************)
EXTENDS Integers, Sequences, FiniteSets, TLC

VARIABLES native, via, value, target, mode, result, pc

vars == <<native, via, value, target, mode, result, pc>>

---------------------------------------------------------------------------
(* Bounds of the sampled payloads *)

\* number of low-order bits of an integer sample that range freely
LowBits == 3
\* number of high-order fraction bits of a float sample that range freely
FracBits == 2
\* longest sampled blob
MaxBlobLen == 2
\* longest sampled String / &'static str
MaxTextLen == 2

---------------------------------------------------------------------------
(* Bit helpers *)

Bit == {0, 1}

Zeros(n) == [i \in 1..n |-> 0]

Ones(n) == [i \in 1..n |-> 1]

RECURSIVE BitsToNat(_)
BitsToNat(b) ==
    IF Len(b) = 0 THEN 0
    ELSE 2 * BitsToNat(SubSeq(b, 1, Len(b) - 1)) + b[Len(b)]

RECURSIVE NatToBits(_, _)
NatToBits(n, w) ==
    IF w = 0 THEN <<>>
    ELSE Append(NatToBits(n \div 2, w - 1), n % 2)

---------------------------------------------------------------------------
(* The native types and the Value enum *)

IntTypes == {"i8", "i16", "i32", "i64"}

FloatTypes == {"f32", "f64"}

Types ==
    {"bool"} \cup IntTypes \cup FloatTypes \cup
    {"Vec<u8>", "String", "&'static str", "Uuid", "NaiveDate", "DateTime<Utc>"}

\* bit width of the primitive numeric types
Width(ty) ==
    CASE ty = "i8" -> 8
      [] ty = "i16" -> 16
      [] ty = "i32" -> 32
      [] ty = "i64" -> 64
      [] ty = "f32" -> 32
      [] ty = "f64" -> 64

\* enum Value: variant |-> payload type
Value ==
    [ Nil       |-> "none",
      Bool      |-> "bool",
      Tinyint   |-> "i8",
      Smallint  |-> "i16",
      Int       |-> "i32",
      Bigint    |-> "i64",
      Float     |-> "f32",
      Double    |-> "f64",
      Blob      |-> "Vec<u8>",
      Text      |-> "String",
      Str       |-> "&'static str",
      Uuid      |-> "Uuid",
      Date      |-> "NaiveDate",
      Timestamp |-> "DateTime<Utc>" ]

Variants == DOMAIN Value

Nil == [tag |-> "Nil", val |-> <<>>]

None == [some |-> FALSE, val |-> <<>>]

Some(x) == [some |-> TRUE, val |-> x]

Ok(x) == [kind |-> "Ok", val |-> x]

\* ConvertError::NotSupported(actual, requested)
NotSupported(actual, requested) ==
    [kind |-> "Err", actual |-> actual, requested |-> requested]

\* get_type_name returning the variant's own name instead of the type label
get_type_name_variant(v) == v.tag

get_type_name(v) ==
    CASE v.tag = "Nil" -> "Nil"
      [] v.tag = "Bool" -> "bool"
      [] v.tag = "Tinyint" -> "i8"
      [] v.tag = "Smallint" -> "i16"
      [] v.tag = "Int" -> "i32"
      [] v.tag = "Bigint" -> "i64"
      [] v.tag = "Float" -> "f32"
      [] v.tag = "Double" -> "f64"
      [] v.tag = "Blob" -> "Vec<u8>"
      [] v.tag = "Text" -> "String"
      [] v.tag = "Str" -> "&'static str"
      [] v.tag = "Uuid" -> "Uuid"
      [] v.tag = "Date" -> "NaiveDate"
      [] v.tag = "Timestamp" -> "DateTime"

---------------------------------------------------------------------------
(* Forward conversions: impl_from! *)

\* the impl_from! invocations: native type |-> variant
impl_from ==
    [ty \in Types |->
        CASE ty = "bool" -> "Bool"
          [] ty = "i8" -> "Tinyint"
          [] ty = "i16" -> "Smallint"
          [] ty = "i32" -> "Int"
          [] ty = "i64" -> "Bigint"
          [] ty = "f32" -> "Float"
          [] ty = "f64" -> "Double"
          [] ty = "Vec<u8>" -> "Blob"
          [] ty = "String" -> "Text"
          [] ty = "&'static str" -> "Str"
          [] ty = "Uuid" -> "Uuid"
          [] ty = "NaiveDate" -> "Date"
          [] ty = "DateTime<Utc>" -> "Timestamp"]

\* ToOwned::to_owned: a fresh copy holding the same elements
to_owned(v) == [i \in 1..Len(v) |-> v[i]]

\* impl From<$ty> for Value
from_owned(ty, f) == [tag |-> impl_from[ty], val |-> f]

\* impl From<&$ty> for Value
from_borrowed(ty, f) == [tag |-> impl_from[ty], val |-> to_owned(f)]

\* From<&Option<$ty>> losing the present value
from_option_nil(ty, f) == Nil

\* impl From<&Option<$ty>> for Value
from_option(ty, f) == IF f.some THEN from_borrowed(ty, f.val) ELSE Nil

---------------------------------------------------------------------------
(* The numeric cast `as $ty` *)

\* `as` going through the unsigned type: zero extension when widening
IntCast_zero_extend(v, w) ==
    IF Len(v) >= w THEN SubSeq(v, Len(v) - w + 1, Len(v))
    ELSE Zeros(w - Len(v)) \o v

\* `as` between signed integers: sign extension when widening, truncation
\* to the low-order bits when narrowing
IntCast(v, w) ==
    IF Len(v) >= w THEN SubSeq(v, Len(v) - w + 1, Len(v))
    ELSE [i \in 1..(w - Len(v)) |-> v[1]] \o v

\* what a cast may do with a NaN operand
NanChoices == {"unchanged", "quieting", "preferred_pos", "preferred_neg"}

\* index of the first set bit of a sequence of bits that has one
FirstOne(f) == CHOOSE k \in 1..Len(f) : f[k] = 1 /\ \A j \in 1..(k - 1) : f[j] = 0

\* f32 as f64: 1/8/23 bits to 1/11/52 bits
FloatWiden(v, q) ==
    LET s  == v[1]
        e  == SubSeq(v, 2, 9)
        f  == SubSeq(v, 10, 32)
        en == BitsToNat(e)
    IN  IF en = 255 /\ f # Zeros(23)
        THEN CASE q = "unchanged" -> <<s>> \o Ones(11) \o f \o Zeros(29)
               [] q = "quieting" -> <<s>> \o Ones(11) \o <<1>> \o SubSeq(f, 2, 23) \o Zeros(29)
               [] q = "preferred_pos" -> <<0>> \o Ones(11) \o <<1>> \o Zeros(51)
               [] q = "preferred_neg" -> <<1>> \o Ones(11) \o <<1>> \o Zeros(51)
        ELSE IF en = 255 THEN <<s>> \o Ones(11) \o Zeros(52)
        ELSE IF en = 0 /\ f = Zeros(23) THEN <<s>> \o Zeros(63)
        ELSE IF en = 0
        THEN LET k == FirstOne(f)
             IN  <<s>> \o NatToBits(897 - k, 11) \o SubSeq(f, k + 1, 23) \o Zeros(29 + k)
        ELSE <<s>> \o NatToBits(en + 896, 11) \o f \o Zeros(29)

\* `as` between floats; a cast to the operand's own type changes nothing
FloatCast(v, w, q) == IF Len(v) = w THEN v ELSE FloatWiden(v, q)

\* `v.to_owned() as $ty`
as_cast(ty, v, q) ==
    IF ty \in IntTypes THEN IntCast(v, Width(ty))
    ELSE IF ty \in FloatTypes THEN FloatCast(v, Width(ty), q)
    ELSE v

---------------------------------------------------------------------------
(* Backward conversions: impl_tryfrom! *)

\* the impl_tryfrom! invocations: ($ty, $ty_name, $($variant),* )
impl_tryfrom(ty) ==
    CASE ty = "bool" -> [ty_name |-> "bool", variants |-> {"Bool"}]
      [] ty = "i8" -> [ty_name |-> "i8", variants |-> {"Tinyint"}]
      [] ty = "i16" -> [ty_name |-> "i16", variants |-> {"Tinyint", "Smallint"}]
      [] ty = "i32" -> [ty_name |-> "i32", variants |-> {"Tinyint", "Smallint", "Int"}]
      [] ty = "i64" ->
            [ty_name |-> "i64", variants |-> {"Tinyint", "Smallint", "Int", "Bigint"}]
      [] ty = "f32" -> [ty_name |-> "f32", variants |-> {"Float"}]
      [] ty = "f64" -> [ty_name |-> "f64", variants |-> {"Float", "Double"}]
      [] ty = "Vec<u8>" -> [ty_name |-> "Vec<u8>", variants |-> {"Blob"}]
      [] ty = "String" -> [ty_name |-> "String", variants |-> {"Text"}]
      [] ty = "&'static str" -> [ty_name |-> "&'static str", variants |-> {"Str"}]
      [] ty = "Uuid" -> [ty_name |-> "Uuid", variants |-> {"Uuid"}]
      [] ty = "NaiveDate" -> [ty_name |-> "NaiveDate", variants |-> {"Date"}]
      [] ty = "DateTime<Utc>" -> [ty_name |-> "DateTime<Utc>", variants |-> {"Timestamp"}]

\* try_from with another accepted-source set in place of the registered one
try_from_accepting(acc, ty, v, q) ==
    IF v.tag \in acc
    THEN Ok(as_cast(ty, to_owned(v.val), q))
    ELSE NotSupported(get_type_name(v), impl_tryfrom(ty).ty_name)

\* try_from deciding an integer request by the range of the stored value
try_from_range_checked(ty, v, q) ==
    LET fits == /\ ty \in IntTypes
                /\ Value[v.tag] \in IntTypes
                /\ IntCast(IntCast(v.val, Width(ty)), Len(v.val)) = v.val
    IN  try_from_accepting(impl_tryfrom(ty).variants \cup (IF fits THEN {v.tag} ELSE {}),
                           ty, v, q)

\* i16 registered with the variant list of the i8 line above it
try_from_i16_as_i8(ty, v, q) ==
    try_from_accepting(IF ty = "i16" THEN {"Tinyint"} ELSE impl_tryfrom(ty).variants,
                       ty, v, q)

\* String registered for both string variants
try_from_string_str(ty, v, q) ==
    try_from_accepting(impl_tryfrom(ty).variants \cup
                           (IF ty = "String" THEN {"Str"} ELSE {}),
                       ty, v, q)

\* f32 registered for both float variants
try_from_f32_double(ty, v, q) ==
    IF ty = "f32" /\ v.tag = "Double"
    THEN Ok(SubSeq(v.val, 1, 32))
    ELSE try_from_accepting(impl_tryfrom(ty).variants, ty, v, q)

\* impl TryFrom<&Value> for $ty
try_from(ty, v, q) ==
    IF v.tag \in impl_tryfrom(ty).variants
    THEN Ok(as_cast(ty, to_owned(v.val), q))
    ELSE NotSupported(get_type_name(v), impl_tryfrom(ty).ty_name)

\* Result::map(|v| Some(v))
map_some(r) == IF r.kind = "Ok" THEN Ok(Some(r.val)) ELSE r

\* try_from_option turning a failed conversion into None
try_from_option_ok(ty, v, q) ==
    IF v.tag = "Nil" \/ try_from(ty, v, q).kind # "Ok"
    THEN Ok(None)
    ELSE map_some(try_from(ty, v, q))

\* impl TryFrom<&Value> for Option<$ty>
try_from_option(ty, v, q) ==
    IF v.tag = "Nil" THEN Ok(None) ELSE map_some(try_from(ty, v, q))

---------------------------------------------------------------------------
(* Sampled native values *)

ByteSamples == {0, 255}

CharSamples == {97, 120}

\* sequences over S of length at most n
SeqsUpTo(S, n) == UNION {[1..k -> S] : k \in 0..n}

\* top bit, a fill bit for the middle, and LowBits free low-order bits
IntSamples(w) ==
    { [i \in 1..w |->
          IF i = 1 THEN top
          ELSE IF i > w - LowBits THEN low[i - (w - LowBits)]
          ELSE fill] : top \in Bit, fill \in Bit, low \in [1..LowBits -> Bit] }
    \cup {NatToBits(42, w)}

ExpSamples(n) ==
    {Zeros(n), Ones(n), <<0>> \o Ones(n - 1), Zeros(n - 1) \o <<1>>, Ones(n - 1) \o <<0>>}

\* sign, a sampled exponent, FracBits free high-order fraction bits and
\* the lowest fraction bit
FloatSamples(w) ==
    LET ne == IF w = 32 THEN 8 ELSE 11
        nf == w - 1 - ne
    IN  { <<s>> \o e \o hi \o Zeros(nf - FracBits - 1) \o <<lo>> :
              s \in Bit, e \in ExpSamples(ne), hi \in [1..FracBits -> Bit], lo \in Bit }

Samples(ty) ==
    CASE ty = "bool" -> {<<0>>, <<1>>}
      [] ty \in IntTypes -> IntSamples(Width(ty))
      [] ty \in FloatTypes -> FloatSamples(Width(ty))
      [] ty = "Vec<u8>" -> SeqsUpTo(ByteSamples, MaxBlobLen)
      [] ty = "String" -> SeqsUpTo(CharSamples, MaxTextLen)
      [] ty = "&'static str" -> SeqsUpTo(CharSamples, MaxTextLen)
      [] ty = "Uuid" ->
            {[i \in 1..16 |-> IF i = 16 THEN lo ELSE hi] : hi \in ByteSamples, lo \in ByteSamples}
      [] ty = "NaiveDate" -> {<<y, o>> : y \in {1970, 2018}, o \in {1, 365}}
      [] ty = "DateTime<Utc>" ->
            {<<y, o, sec, 0>> : y \in {1970, 2018}, o \in {1, 365}, sec \in {0, 86399}}

NativeOptions ==
    UNION { {[ty |-> ty, opt |-> None]} \cup {[ty |-> ty, opt |-> Some(v)] : v \in Samples(ty)}
            : ty \in Types }

---------------------------------------------------------------------------
(* The state machine: a native value is converted into a Value by one of   *)
(* the three forward conversions, then a native type is requested from it  *)
(* by one of the two backward conversions.                                 *)

NoResult == [kind |-> "none"]

Init ==
    /\ native \in NativeOptions
    /\ via = "none"
    /\ value = Nil
    /\ target = "none"
    /\ mode = "none"
    /\ result = NoResult
    /\ pc = "native"

\* Value::from(f) for an owned f: $ty
FromOwned ==
    /\ pc = "native"
    /\ native.opt.some
    /\ value' = from_owned(native.ty, native.opt.val)
    /\ via' = "owned"
    /\ pc' = "value"
    /\ UNCHANGED <<native, target, mode, result>>

\* Value::from(&f) for f: $ty
FromBorrowed ==
    /\ pc = "native"
    /\ native.opt.some
    /\ value' = from_borrowed(native.ty, native.opt.val)
    /\ via' = "borrowed"
    /\ pc' = "value"
    /\ UNCHANGED <<native, target, mode, result>>

\* Value::from(&f) for f: Option<$ty>
FromOption ==
    /\ pc = "native"
    /\ value' = from_option(native.ty, native.opt)
    /\ via' = "option"
    /\ pc' = "value"
    /\ UNCHANGED <<native, target, mode, result>>

\* <$ty>::try_from(&value)
TryFrom ==
    /\ pc = "value"
    /\ \E ty \in Types, q \in NanChoices :
          /\ target' = ty
          /\ result' = try_from(ty, value, q)
    /\ mode' = "plain"
    /\ pc' = "done"
    /\ UNCHANGED <<native, via, value>>

\* Option::<$ty>::try_from(&value)
TryFromOption ==
    /\ pc = "value"
    /\ \E ty \in Types, q \in NanChoices :
          /\ target' = ty
          /\ result' = try_from_option(ty, value, q)
    /\ mode' = "option"
    /\ pc' = "done"
    /\ UNCHANGED <<native, via, value>>

Next == FromOwned \/ FromBorrowed \/ FromOption \/ TryFrom \/ TryFromOption

Spec == Init /\ [][Next]_vars

---------------------------------------------------------------------------
(* Reading the model's values *)

NonNumericTypes == Types \ (IntTypes \cup FloatTypes)

\* the variant of Value whose payload has type ty
OwnVariant(ty) == CHOOSE t \in Variants : Value[t] = ty

\* a sequence of bits without its leading zeros
RECURSIVE Strip(_)
Strip(b) == IF Len(b) > 0 /\ b[1] = 0 THEN Strip(Tail(b)) ELSE b

\* two's complement negation: the bits above the lowest set bit are inverted
Negate(b) ==
    IF b = Zeros(Len(b)) THEN b
    ELSE LET p == CHOOSE k \in 1..Len(b) : b[k] = 1 /\ \A j \in (k + 1)..Len(b) : b[j] = 0
         IN  [i \in 1..Len(b) |-> IF i < p THEN 1 - b[i] ELSE b[i]]

\* the number a two's complement bit pattern stands for, as sign and magnitude
NumVal(b) ==
    IF b[1] = 1 THEN [neg |-> TRUE, mag |-> Strip(Negate(b))]
    ELSE [neg |-> FALSE, mag |-> Strip(b)]

Done(m) == pc = "done" /\ mode = m

---------------------------------------------------------------------------
(* Claims *)

\* C1: an integer type T accepts a Value exactly when the value's variant is
\* an integer variant whose declared width is at most T's width, whatever
\* the payload; every other request fails with NotSupported.
C1_IntegerAcceptByWidth ==
    Done("plain") /\ target \in IntTypes =>
        /\ result.kind \in {"Ok", "Err"}
        /\ result.kind = "Ok" <=>
              /\ Value[value.tag] \in IntTypes
              /\ Width(Value[value.tag]) <= Width(target)

\* C1 witness: Bigint(1), which fits an i32, requested as i32 is rejected
C1_Witness ==
    /\ Done("plain")
    /\ target = "i32"
    /\ value = [tag |-> "Bigint", val |-> NatToBits(1, 64)]
    /\ result.kind = "Err"

\* C2: a native value converted into a Value (owned or borrowed form) is
\* its type's own variant carrying it, and converting back to the same
\* type yields Ok of the same content.
C2_RoundTrip ==
    Done("plain") /\ via \in {"owned", "borrowed"} /\ target = native.ty =>
        /\ value.tag = OwnVariant(native.ty)
        /\ value.val = native.opt.val
        /\ result.kind = "Ok"
        /\ result.val = native.opt.val

\* C2 witness: 42i32 becomes Int(42) and comes back as Ok(42)
C2_Witness ==
    /\ Done("plain")
    /\ via = "owned"
    /\ native = [ty |-> "i32", opt |-> Some(NatToBits(42, 32))]
    /\ value = [tag |-> "Int", val |-> NatToBits(42, 32)]
    /\ target = "i32"
    /\ result = Ok(NatToBits(42, 32))

\* the source set the widening policy gives each type
C3_SourceSet(ty) ==
    IF ty \in IntTypes
    THEN {t \in Variants : Value[t] \in IntTypes /\ Width(Value[t]) <= Width(ty)}
    ELSE IF ty = "f64" THEN {"Float", "Double"}
    ELSE {OwnVariant(ty)}

\* the label of each variant: the name of its payload type, "Nil" for Nil,
\* and "DateTime" for Timestamp
C3_VariantLabel(t) ==
    IF t = "Nil" THEN "Nil" ELSE IF t = "Timestamp" THEN "DateTime" ELSE Value[t]

\* C3: a non-optional conversion of a Value whose variant is outside the
\* requested type's source set (Nil included) returns
\* NotSupported(label of the variant, label of the requested type).
C3_NotSupportedLabels ==
    Done("plain") /\ value.tag \notin C3_SourceSet(target) =>
        /\ result.kind = "Err"
        /\ result.actual = C3_VariantLabel(value.tag)
        /\ result.requested = target

\* C3 witness: Text("x") requested as i64 yields NotSupported("String", "i64")
C3_Witness ==
    /\ Done("plain")
    /\ value = [tag |-> "Text", val |-> <<120>>]
    /\ target = "i64"
    /\ result = NotSupported("String", "i64")

\* C4: the optional conversion gives Ok(None) for Nil; for any other Value
\* it gives Ok(Some(x)) exactly when the non-optional conversion gives
\* Ok(x), and the same NotSupported error when that one fails.
C4_OptionDelegates ==
    Done("option") =>
        IF value.tag = "Nil"
        THEN result.kind = "Ok" /\ ~result.val.some
        ELSE \E q \in NanChoices :
                LET r == try_from(target, value, q)
                IN  IF r.kind = "Ok"
                    THEN result.kind = "Ok" /\ result.val.some /\ result.val.val = r.val
                    ELSE result.kind = "Err" /\ result = r

\* C4 witness: Smallint(7) requested as Option<i16> yields Ok(Some(7))
C4_Witness ==
    /\ Done("option")
    /\ value = [tag |-> "Smallint", val |-> NatToBits(7, 16)]
    /\ target = "i16"
    /\ result = Ok(Some(NatToBits(7, 16)))

\* C5: the borrowed-optional forward conversion gives Nil for None, and
\* for Some(v) the Value the borrowed conversion gives for v: the type's
\* own variant carrying v.
C5_FromOption ==
    pc # "native" /\ via = "option" =>
        IF native.opt.some
        THEN /\ value = from_borrowed(native.ty, native.opt.val)
             /\ value.tag = OwnVariant(native.ty)
             /\ value.val = native.opt.val
        ELSE value = Nil

\* C5 witness: &Some(5i16) becomes Smallint(5)
C5_Witness ==
    /\ pc = "value"
    /\ via = "option"
    /\ native = [ty |-> "i16", opt |-> Some(NatToBits(5, 16))]
    /\ value = [tag |-> "Smallint", val |-> NatToBits(5, 16)]

\* the exact variant of each non-numeric type
C6_ExactVariant(ty) ==
    CASE ty = "bool" -> "Bool"
      [] ty = "Vec<u8>" -> "Blob"
      [] ty = "String" -> "Text"
      [] ty = "&'static str" -> "Str"
      [] ty = "Uuid" -> "Uuid"
      [] ty = "NaiveDate" -> "Date"
      [] ty = "DateTime<Utc>" -> "Timestamp"

\* C6: a non-numeric type accepts its own exact variant and fails with
\* NotSupported for every other variant.
C6_NonNumericExact ==
    Done("plain") /\ target \in NonNumericTypes =>
        /\ result.kind \in {"Ok", "Err"}
        /\ result.kind = "Ok" <=> value.tag = C6_ExactVariant(target)

\* C6 witness: a Str value requested as String is rejected
C6_Witness ==
    /\ Done("plain")
    /\ value.tag = "Str"
    /\ target = "String"
    /\ result = NotSupported("&'static str", "String")

\* C7: f32 accepts only Float, f64 accepts only Float and Double; every
\* other variant fails with NotSupported.
C7_FloatAccept ==
    Done("plain") /\ target \in FloatTypes =>
        /\ result.kind \in {"Ok", "Err"}
        /\ result.kind = "Ok" <=>
              \/ value.tag = "Float"
              \/ value.tag = "Double" /\ target = "f64"

\* C7 witness: a Double value requested as f32 is rejected
C7_Witness ==
    /\ Done("plain")
    /\ value.tag = "Double"
    /\ target = "f32"
    /\ result = NotSupported("f64", "f32")

\* C8: every accepted integer conversion returns a payload of the target's
\* width that stands for the same number as the stored payload.
C8_WideningLossless ==
    Done("plain") /\ target \in IntTypes /\ result.kind = "Ok" =>
        /\ Len(result.val) = Width(target)
        /\ NumVal(result.val) = NumVal(value.val)

\* C8 witness: Tinyint(-128), the least i8, requested as i64
C8_Witness ==
    /\ Done("plain")
    /\ value = [tag |-> "Tinyint", val |-> <<1>> \o Zeros(7)]
    /\ target = "i64"
    /\ result = Ok(Ones(57) \o Zeros(7))

\* C10: the label reported as requested when a conversion to T fails is
\* the label get_type_name reports for T's own variant.
C10_LabelsAgree ==
    pc = "done" /\ result.kind = "Err" =>
        result.requested = get_type_name([tag |-> OwnVariant(target), val |-> <<>>])

====
